---- MODULE Spec2Model ----
(***************************************************************************)
(* A model of functions_complete.py: the fault-containment decorators, the *)
(* Selenium pollers built on them, the text refiners, the date parsers and *)
(* the hash helpers.  Every behaviour is one call: Init draws the function *)
(* and its arguments, the actions run the function's code.                 *)
(*                                                                         *)
(* Python strings are sequences of one-character strings.  Python values   *)
(* are records [t |-> type, v |-> payload]; a finished call is a record    *)
(* [tag |-> "return" | "raise", val |-> value, exc |-> exception kind].    *)
(***************************************************************************)
EXTENDS Integers, Sequences, FiniteSets, TLC

VARIABLES
    call,       \* the function called and its arguments
    pc,         \* where the call stands
    out,        \* how the call ended
    elapsed,    \* WebDriverWait.until: poll intervals slept since the wait began
    queries,    \* times the driver was asked for the selector during the call
    found,      \* what the driver's successful poll gave (PyNone before)
    page,       \* the driver's current page markup (a version number)
    md5,        \* buffer_until_page_fully_loaded: local md5
    changed,    \* buffer_until_page_fully_loaded: local changed
    reads,      \* times driver.page_source was read during the call
    sleeps      \* times time.sleep was called during the call

vars == <<call, pc, out, elapsed, queries, found, page, md5, changed, reads, sleeps>>

----------------------------------------------------------------------------
(* Bounds of the model *)

\* longest free-form text handed to a refiner
MaxLen == 4
\* longest text handed to translate_word_containing_substring
MaxWordLen == 3
\* most (substring, replacement) pairs in a translator tuple
MaxPairs == 2
\* most whitespace-separated tokens / separator-separated components of a date
MaxDateParts == 3
\* largest twait, in poll intervals of WebDriverWait
MaxWait == 2
\* largest |shift| tried on calculate_hash, besides the multiples of 256
MaxShift == 2
\* longest text / salt handed to the hash helpers
MaxHashLen == 2

----------------------------------------------------------------------------
(* Python values and call outcomes *)

PyNone == [t |-> "None", v |-> <<>>]
PyStr(s) == [t |-> "str", v |-> s]
PyInt(n) == [t |-> "int", v |-> n]
PyList(l) == [t |-> "list", v |-> l]
PyElem(e) == [t |-> "WebElement", v |-> e]

\* equality of Python values, the type first
Same(a, b) == a.t = b.t /\ a.v = b.v

Return(x) == [tag |-> "return", val |-> x, exc |-> "none"]
Raise(e) == [tag |-> "raise", val |-> PyNone, exc |-> e]
Pending == [tag |-> "pending", val |-> PyNone, exc |-> "none"]

Returns(o, x) == o.tag = "return" /\ Same(o.val, x)

----------------------------------------------------------------------------
(* str methods *)

Digits == {"0", "1", "2", "3", "4", "5", "6", "7", "8", "9"}
DigitSeq == <<"0", "1", "2", "3", "4", "5", "6", "7", "8", "9">>
Whitespace == {" "}

\* all strings over alphabet of length at most n
Strings(alphabet, n) == UNION {[1..k -> alphabet] : k \in 0..n}

RECURSIVE Tuple(_)
\* s as a tuple
Tuple(s) == IF Len(s) = 0 THEN <<>> ELSE <<Head(s)>> \o Tuple(Tail(s))

\* str.isdigit
isdigit(s) == Len(s) > 0 /\ \A i \in 1..Len(s) : s[i] \in Digits

RECURSIVE replace(_, _, _)
\* str.replace(a, b) for a one-character a and a string b
replace(s, a, b) ==
    IF Len(s) = 0 THEN <<>>
    ELSE (IF Head(s) = a THEN b ELSE <<Head(s)>>) \o replace(Tail(s), a, b)

RECURSIVE SplitFrom(_, _, _, _)
SplitFrom(s, i, cur, sep) ==
    IF i > Len(s) THEN <<cur>>
    ELSE IF i + Len(sep) - 1 <= Len(s) /\ SubSeq(s, i, i + Len(sep) - 1) = sep
         THEN <<cur>> \o SplitFrom(s, i + Len(sep), <<>>, sep)
         ELSE SplitFrom(s, i + 1, Append(cur, s[i]), sep)

\* str.split(sep): the pieces between the occurrences of sep, left to right
split(s, sep) == SplitFrom(s, 1, <<>>, sep)

RECURSIVE SplitWsFrom(_, _, _)
SplitWsFrom(s, i, cur) ==
    IF i > Len(s) THEN (IF cur = <<>> THEN <<>> ELSE <<cur>>)
    ELSE IF s[i] \in Whitespace
         THEN (IF cur = <<>> THEN <<>> ELSE <<cur>>) \o SplitWsFrom(s, i + 1, <<>>)
         ELSE SplitWsFrom(s, i + 1, Append(cur, s[i]))

\* str.split(): the non-empty pieces between runs of whitespace
split_ws(s) == SplitWsFrom(s, 1, <<>>)

RECURSIVE lstrip(_)
lstrip(s) == IF Len(s) > 0 /\ Head(s) \in Whitespace THEN lstrip(Tail(s)) ELSE s

RECURSIVE rstrip(_)
rstrip(s) ==
    IF Len(s) > 0 /\ s[Len(s)] \in Whitespace THEN rstrip(SubSeq(s, 1, Len(s) - 1)) ELSE s

\* str.strip
strip(s) == rstrip(lstrip(s))

RECURSIVE join(_, _)
\* sep.join(parts)
join(sep, parts) ==
    IF Len(parts) = 0 THEN <<>>
    ELSE IF Len(parts) = 1 THEN parts[1]
    ELSE parts[1] \o sep \o join(sep, Tail(parts))

\* sub in s
contains(s, sub) ==
    \E i \in 1..(Len(s) - Len(sub) + 1) : SubSeq(s, i, i + Len(sub) - 1) = sub

DigitVal(c) == (CHOOSE i \in 1..10 : DigitSeq[i] = c) - 1

RECURSIVE DigitsValue(_)
DigitsValue(s) ==
    IF Len(s) = 0 THEN 0 ELSE 10 * DigitsValue(SubSeq(s, 1, Len(s) - 1)) + DigitVal(s[Len(s)])

\* int(s) of a string without whitespace, sign or underscore: the value of an
\* all-digit string, ValueError otherwise
int(s) == IF isdigit(s) THEN Return(PyInt(DigitsValue(s))) ELSE Raise("ValueError")

----------------------------------------------------------------------------
(* Refine functions *)

\* [i for i in s.replace(',', '.').split() if i.replace('.', '').isdigit()]
NumericTokens(s) ==
    SelectSeq(split_ws(replace(s, ",", <<".">>)), LAMBDA i : isdigit(replace(i, ".", <<>>)))

refine_price_val(price_string) ==
    LET debt_value_refined == join(<<>>, NumericTokens(price_string))
    IN  Return(PyStr(IF debt_value_refined = <<>> THEN <<"0">> ELSE debt_value_refined))

IntOrRaise(s) == int(s)

\* try: return int(...) except ValueError: return 0
IntOrZero(s) ==
    LET r == int(s)
    IN  IF r.tag = "raise" /\ r.exc = "ValueError" THEN Return(PyInt(0)) ELSE r

refine_eng_capacity(eng_cap_str) ==
    LET pieces == split(strip(replace(eng_cap_str, ",", <<".">>)), <<"c", "m">>)
        cut == join(<<>>, SubSeq(pieces, 1, Len(pieces) - 1))
        kept == SelectSeq(split_ws(strip(cut)), LAMBDA i : isdigit(replace(i, ".", <<>>)))
    IN  IntOrZero(join(<<>>, kept))

refine_mileage(mileage_str) == IntOrZero(join(<<>>, NumericTokens(mileage_str)))

refine_integer(integer_str) == IntOrZero(join(<<>>, NumericTokens(integer_str)))

RefinerAlphabet == {"1", ".", ",", " ", "c", "m"}

\* the texts of the documented examples
RefinerExamples ==
    { <<"1", " ", "5", "9", "8", " ", "c", "m", "3">>,
      <<"1", "2", ",", "5", "0", "0", " ", "z", "l">>,
      <<"1", ".", "2", ".", "3">>,
      <<"1", ".", "5", " ", "2", " ", "c", "m">> }

RefinerInputs == {Tuple(x) : x \in Strings(RefinerAlphabet, MaxLen)} \cup RefinerExamples

RefinerFns == {"refine_price_val", "refine_eng_capacity", "refine_mileage", "refine_integer"}

RefinerCalls == {[fn |-> f, s |-> x] : f \in RefinerFns, x \in RefinerInputs}

----------------------------------------------------------------------------
(* translate_word_containing_substring *)

\* "".join(s) of a string s: its characters, joined
JoinChars(s) == join(<<>>, [i \in 1..Len(s) |-> <<s[i]>>])

translate_last_match(s, translator_tuple) ==
    LET matching == SelectSeq(translator_tuple, LAMBDA x : contains(s, x[1]))
        last == IF Len(matching) = 0 THEN <<<<>>, <<>>>> ELSE matching[Len(matching)]
    IN  Return(PyStr(JoinChars(last[2])))

\* "".join(next(iter(list(filter(lambda x: x[0] in s, translator_tuple))), ('', ''))[1])
translate_word_containing_substring(s, translator_tuple) ==
    LET matching == SelectSeq(translator_tuple, LAMBDA x : contains(s, x[1]))
        first == IF Len(matching) = 0 THEN <<<<>>, <<>>>> ELSE matching[1]
    IN  Return(PyStr(JoinChars(first[2])))

TranslatorPairs ==
    {<<sub, repl>> : sub \in {<<>>, <<"b">>, <<"a", "b">>}, repl \in {<<"X">>, <<"Y">>}}

\* pairs [("abc","X"),("b","Y")] against "xabcx"
TranslateExample ==
    [fn |-> "translate_word_containing_substring",
     s |-> <<"x", "a", "b", "c", "x">>,
     pairs |-> << <<<<"a", "b", "c">>, <<"X">>>>, <<<<"b">>, <<"Y">>>> >>]

TranslateCalls ==
    {[fn |-> "translate_word_containing_substring", s |-> x, pairs |-> p] :
        x \in {Tuple(w) : w \in Strings({"a", "b"}, MaxWordLen)},
        p \in {Tuple(q) : q \in Strings(TranslatorPairs, MaxPairs)}}
    \cup {TranslateExample}

----------------------------------------------------------------------------
(* calculate_md5, calculate_hash *)

\* the size of an MD5 digest, in bytes
Md5DigestSize == 16

\* str.encode("utf-8") of the ASCII letters of the model
CharCode(c) == CASE c = "a" -> 97 [] c = "b" -> 98 [] c = "c" -> 99 [] OTHER -> 63

encode(s) == [i \in 1..Len(s) |-> CharCode(s[i])]

RECURSIVE Mix(_, _, _)
Mix(bytes, i, k) ==
    IF i > Len(bytes) THEN (k * 37 + Len(bytes) * 101) % 256
    ELSE (Mix(bytes, i + 1, k) * 31 + bytes[i] * (i + k)) % 256

\* hashlib.md5(bytes).digest(): a deterministic function of the bytes giving
\* Md5DigestSize bytes.  MD5's rounds are not modelled: Mix stands in for them.
md5_digest(bytes) == [k \in 1..Md5DigestSize |-> Mix(bytes, 1, k)]

HexDigits == <<"0", "1", "2", "3", "4", "5", "6", "7", "8", "9", "a", "b", "c", "d", "e", "f">>

RECURSIVE hex(_)
\* bytes.hex() / hexdigest(): two lower-case hex digits per byte
hex(bytes) ==
    IF Len(bytes) = 0 THEN <<>>
    ELSE <<HexDigits[(Head(bytes) \div 16) + 1], HexDigits[(Head(bytes) % 16) + 1]>>
         \o hex(Tail(bytes))

calculate_md5(text) == Return(PyStr(hex(md5_digest(encode(text)))))

ShiftByte255(byte, shift) == (byte + shift) % 255

\* (byte + shift) % 256, Python's % taking the sign of the divisor
ShiftByte(byte, shift) == (byte + shift) % 256

\* the digest of calculate_hash before hex-encoding
shifted_digest(text, salt, shift) ==
    LET hash_digest == md5_digest(encode(text \o salt))
    IN  [i \in 1..Len(hash_digest) |-> ShiftByte(hash_digest[i], shift)]

calculate_hash(text, salt, shift) == Return(PyStr(hex(shifted_digest(text, salt, shift))))

HashTexts == {Tuple(x) : x \in Strings({"a", "b"}, MaxHashLen)}

\* shifts around 0 and around plus and minus 256
Shifts == {k + 256 * j : k \in (-MaxShift)..MaxShift, j \in {-1, 0, 1}}

HashCalls ==
    {[fn |-> "calculate_hash", text |-> x, salt |-> y, shift |-> k] :
        x \in HashTexts, y \in HashTexts, k \in Shifts}
    \cup {[fn |-> "calculate_md5", text |-> x] : x \in HashTexts}

----------------------------------------------------------------------------
(* prep_decimal_from_string.  A Decimal is [digits, exp]: the coefficient's *)
(* decimal digits and the exponent, as decimal.Decimal keeps them.          *)

RECURSIVE Zeros(_)
Zeros(n) == IF n <= 0 THEN <<>> ELSE <<"0">> \o Zeros(n - 1)

RECURSIVE IntStr(_)
\* str(n) of a natural number
IntStr(n) == IF n < 10 THEN <<DigitSeq[n + 1]>> ELSE IntStr(n \div 10) \o <<DigitSeq[(n % 10) + 1]>>

\* str(1 / (10 ** precision_fp)): the repr of the float, which is positional
\* from 1e-04 up ("0.01", "1.0", "10.0") and scientific below ("1e-05")
FloatStr(precision_fp) ==
    IF precision_fp <= 0 THEN <<"1">> \o Zeros(-precision_fp) \o <<".", "0">>
    ELSE IF precision_fp <= 4 THEN <<"0", ".">> \o Zeros(precision_fp - 1) \o <<"1">>
    ELSE <<"1", "e", "-">> \o (IF precision_fp < 10 THEN <<"0">> ELSE <<>>) \o IntStr(precision_fp)

AllDigits(s) == \A i \in 1..Len(s) : s[i] \in Digits

\* Decimal(s) of a string without sign and whitespace: digits with at most one
\* period and at least one digit, then an optional exponent e[+-]digits
Decimal(s) ==
    LET parts == split(s, <<"e">>)
        mantissa == split(parts[1], <<".">>)
        intpart == mantissa[1]
        fracpart == IF Len(mantissa) >= 2 THEN mantissa[2] ELSE <<>>
        etext == IF Len(parts) >= 2 THEN parts[2] ELSE <<>>
        signed == Len(etext) > 0 /\ etext[1] \in {"+", "-"}
        edigits == IF signed THEN Tail(etext) ELSE etext
        evalue == IF Len(parts) < 2 THEN 0
                  ELSE IF signed /\ etext[1] = "-" THEN -DigitsValue(edigits)
                  ELSE DigitsValue(edigits)
        wellformed ==
            /\ Len(parts) <= 2
            /\ Len(mantissa) <= 2
            /\ AllDigits(intpart) /\ AllDigits(fracpart)
            /\ Len(intpart) + Len(fracpart) >= 1
            /\ Len(parts) = 2 => isdigit(edigits)
    IN  IF wellformed
        THEN Return([t |-> "Decimal", v |-> [digits |-> intpart \o fracpart, exp |-> evalue - Len(fracpart)]])
        ELSE Raise("InvalidOperation")

RECURSIVE Increment(_)
\* the digits of the coefficient plus one
Increment(digits) ==
    IF Len(digits) = 0 THEN <<"1">>
    ELSE IF digits[Len(digits)] = "9"
         THEN Increment(SubSeq(digits, 1, Len(digits) - 1)) \o <<"0">>
         ELSE SubSeq(digits, 1, Len(digits) - 1) \o <<DigitSeq[DigitVal(digits[Len(digits)]) + 2]>>

RECURSIVE StripZeros(_)
\* the coefficient without leading zeros
StripZeros(digits) ==
    IF Len(digits) > 1 /\ Head(digits) = "0" THEN StripZeros(Tail(digits))
    ELSE IF Len(digits) = 0 THEN <<"0">> ELSE digits

\* d.quantize(q): d rounded half-even to q's exponent
quantize(d, q) ==
    LET shift == d.exp - q.exp
        padded == Zeros((-shift) - Len(d.digits)) \o d.digits
        kept == SubSeq(padded, 1, Len(padded) + shift)
        dropped == SubSeq(padded, Len(padded) + shift + 1, Len(padded))
        lastodd == Len(kept) > 0 /\ DigitVal(kept[Len(kept)]) % 2 = 1
        roundup ==
            \/ DigitVal(dropped[1]) > 5
            \/ /\ DigitVal(dropped[1]) = 5
               /\ (lastodd \/ \E i \in 2..Len(dropped) : dropped[i] # "0")
        digits == IF shift >= 0 THEN d.digits \o Zeros(shift)
                  ELSE IF roundup THEN Increment(kept) ELSE kept
    IN  Return([t |-> "Decimal", v |-> [digits |-> StripZeros(digits), exp |-> q.exp]])

\* the largest precision_fp accepted
MaxPrecision == 20

prep_decimal_from_string(s, precision_fp) ==
    IF precision_fp > MaxPrecision THEN Raise("ValueError")
    ELSE LET precision == FloatStr(precision_fp)
             value == IF ~isdigit(replace(s, ".", <<>>)) THEN Decimal(<<"0">>) ELSE Decimal(s)
         IN  IF value.tag = "raise" THEN value
             ELSE quantize(value.val.v, Decimal(precision).val.v)

DecimalExamples == { <<"1", ".", "2", ".", "3">>, <<"0", ".", "1", "2", "5">> }

DecimalInputs == {Tuple(x) : x \in Strings({"1", "5", ".", "a"}, MaxLen)} \cup DecimalExamples

DecimalCalls ==
    {[fn |-> "prep_decimal_from_string", s |-> x, precision_fp |-> k] :
        x \in DecimalInputs,
        k \in {0, 1, 2, 3, 5, MaxPrecision, MaxPrecision + 1}}

----------------------------------------------------------------------------
(* DECORATORS.  Each takes the outcome of the call of the wrapped func.  An *)
(* exception kind stands for the class and its subclasses.                 *)

ContainedFailures ==
    {"TimeoutException", "NoSuchElementException", "ElementNotInteractableException"}

OtherFailures ==
    {"WebDriverException", "StaleElementReferenceException", "InvalidSelectorException"}

ContainsAny(r) == r.tag = "raise"

\* except (TimeoutException, NoSuchElementException, ElementNotInteractableException)
Contains(r) == r.tag = "raise" /\ r.exc \in ContainedFailures

wait_for(r) == IF Contains(r) THEN Return(PyNone) ELSE r

wait_for_list(r) == IF Contains(r) THEN Return(PyList(<<>>)) ELSE r

get_func_or_eptstr(r) == IF Contains(r) THEN Return(PyStr(<<>>)) ELSE r

Decorators == {"wait_for", "wait_for_list", "get_func_or_eptstr"}

Decorate(decorator, r) ==
    CASE decorator = "wait_for" -> wait_for(r)
      [] decorator = "wait_for_list" -> wait_for_list(r)
      [] decorator = "get_func_or_eptstr" -> get_func_or_eptstr(r)

Elements == {1, 2}

\* what a wrapped function may return
SomeValues ==
    {PyNone, PyStr(<<>>), PyStr(<<"a">>), PyList(<<>>), PyList(<<1>>), PyInt(0)}
    \cup {PyElem(e) : e \in Elements}

\* the outcomes of a wrapped function
InnerOutcomes ==
    {Return(x) : x \in SomeValues} \cup {Raise(e) : e \in ContainedFailures \cup OtherFailures}

DecoratedCalls ==
    {[fn |-> "decorated", decorator |-> d, inner |-> r] : d \in Decorators, r \in InnerOutcomes}

----------------------------------------------------------------------------
(* Selenium functions.  Time is counted in poll intervals of WebDriverWait: *)
(* until() asks the driver, returns a truthy answer, and otherwise sleeps  *)
(* one interval and raises TimeoutException once the deadline has passed.  *)

\* longest textContent of an element
MaxTextLen == 2

ElementFns == {"buffer", "buffer_interactable"}
ListFns == {"buffer_all"}
TextFns == {"wait_for_text_content", "wait_for_text_content_norm"}
PollerFns == ElementFns \cup ListFns \cup TextFns

DecoratorOf(fn) ==
    CASE fn \in ElementFns -> "wait_for"
      [] fn \in ListFns -> "wait_for_list"
      [] fn \in TextFns -> "get_func_or_eptstr"

SkipsWaitNever(fn, css_selector) == FALSE

\* if css_selector == '': return None / list(), in the three buffer functions
SkipsWait(fn, css_selector) == fn \in ElementFns \cup ListFns /\ css_selector = <<>>

\* the value returned before any wait
EmptyReturn(fn) == IF fn \in ListFns THEN PyList(<<>>) ELSE PyNone

\* str.lower on the letters of the model
lower(s) == [i \in 1..Len(s) |-> IF s[i] = "A" THEN "a" ELSE IF s[i] = "B" THEN "b" ELSE s[i]]

ReturnsFoundAsIs(fn, value) == value

\* what the function makes of the value until() returned
Found(fn, value) ==
    CASE fn = "wait_for_text_content" -> PyStr(strip(value.v))
      [] fn = "wait_for_text_content_norm" ->
            PyStr(Tuple(lower(strip(join(<<" ">>, split_ws(value.v))))))
      [] OTHER -> value

\* until(): the deadline has passed after the sleep
Expired(slept, twait) == slept > twait

TextContents == {Tuple(x) : x \in Strings({"A", "b", " "}, MaxTextLen)}

\* the truthy answers of the driver to the wait condition: an element, a
\* non-empty list of elements, or (for the text functions) an element, given
\* here by its textContent.  Nothing matches an empty selector.
Truthy(fn, css_selector) ==
    CASE css_selector = <<>> -> {}
      [] fn \in ElementFns -> {PyElem(e) : e \in Elements}
      [] fn \in ListFns -> {PyList(<<1>>), PyList(<<2>>), PyList(<<1, 2>>)}
      [] fn \in TextFns -> {PyStr(x) : x \in TextContents}

\* the failures of the driver that until() does not ignore: an empty selector
\* is an invalid selector
DriverFailures(css_selector) ==
    IF css_selector = <<>> THEN {"InvalidSelectorException"} ELSE OtherFailures

Selectors == {<<>>, <<"a">>}

PollerCalls ==
    {[fn |-> f, css_selector |-> sel, twait |-> w] :
        f \in PollerFns, sel \in Selectors, w \in 0..MaxWait}

----------------------------------------------------------------------------
(* buffer_until_page_fully_loaded *)

\* longest page markup
MaxMarkupLen == 1

PageMarkups == {Tuple(x) : x \in Strings({"a", "b"}, MaxMarkupLen)}

\* hashlib.md5(bytearray(driver.page_source, 'utf-8')).hexdigest()
Fingerprint(markup) == hex(md5_digest(encode(markup)))

InitialChangedTrue == TRUE

\* changed: bool = False
InitialChanged == FALSE

PageCalls == {[fn |-> "buffer_until_page_fully_loaded", tsleep |-> k] : k \in {1, 2}}

----------------------------------------------------------------------------
(* Date functions *)

\* Months.TRANSLATE_POLISH_TO_ENGLISH_FULL_CONJ: Polish month names in the
\* genitive to month numbers (some of the twelve)
MonthsConj ==
    { <<<<"l", "u", "t", "e", "g", "o">>, 2>>, <<<<"m", "a", "j", "a">>, 5>> }

\* Months.TRANSLATE_POLISH_TO_ENGLISH_FULL: Polish month names in the
\* nominative to month numbers (some of the twelve)
MonthsFull ==
    { <<<<"l", "u", "t", "y">>, 2>>, <<<<"m", "a", "j">>, 5>> }

\* dict.get(key): the value, or None
DictGet(dict, key) ==
    IF \E e \in dict : e[1] = key
    THEN PyInt((CHOOSE e \in dict : e[1] = key)[2])
    ELSE PyNone

IsLeap(year) == year % 4 = 0 /\ (year % 100 # 0 \/ year % 400 = 0)

DaysInMonth(year, month) ==
    IF month = 2 THEN (IF IsLeap(year) THEN 29 ELSE 28)
    ELSE IF month \in {4, 6, 9, 11} THEN 30 ELSE 31

\* datetime.MINYEAR and datetime.MAXYEAR
ValidDate(year, month, day) ==
    /\ year >= 1 /\ year <= 9999
    /\ month >= 1 /\ month <= 12
    /\ day >= 1 /\ day <= DaysInMonth(year, month)

Pad2(n) == IF n < 10 THEN <<"0">> \o IntStr(n) ELSE IntStr(n)

\* datetime(year, month, day).strftime('%Y-%m-%d'), month an int or None:
\* TypeError for None, ValueError out of range.  %Y is the year's digits, as
\* the C library writes them (four for the years from 1000 on).
DateString(year, month, day) ==
    IF month.t # "int" THEN Raise("TypeError")
    ELSE IF ~ValidDate(year, month.v, day) THEN Raise("ValueError")
    ELSE Return(PyStr(IntStr(year) \o <<"-">> \o Pad2(month.v) \o <<"-">> \o Pad2(day)))

\* except (IndexError, TypeError): return ''
EmptyOnIndexOrType(r) ==
    IF r.tag = "raise" /\ r.exc \in {"IndexError", "TypeError"} THEN Return(PyStr(<<>>)) ELSE r

format_date_string_d_mword_y(s) ==
    LET date == split_ws(s)
        year == int(date[Len(date)])
        day == int(date[1])
    IN  EmptyOnIndexOrType(
            IF Len(date) = 0 THEN Raise("IndexError")
            ELSE IF year.tag = "raise" THEN year
            ELSE IF Len(date) < 2 THEN Raise("IndexError")
            ELSE IF day.tag = "raise" THEN day
            ELSE DateString(year.val.v, DictGet(MonthsConj, date[2]), day.val.v))

format_date_string_mword_y(s) ==
    LET date == split_ws(s)
        year == int(date[Len(date)])
    IN  EmptyOnIndexOrType(
            IF Len(date) = 0 THEN Raise("IndexError")
            ELSE IF year.tag = "raise" THEN year
            ELSE DateString(year.val.v, DictGet(MonthsFull, date[1]), 1))

\* %d: 3[0-1]|[1-2]\d|0[1-9]|[1-9]| [1-9]
MatchesDay(x) ==
    \/ Len(x) = 2 /\ AllDigits(x) /\ DigitsValue(x) \in 1..31
    \/ Len(x) = 1 /\ x[1] \in Digits \ {"0"}
    \/ Len(x) = 2 /\ x[1] = " " /\ x[2] \in Digits \ {"0"}

\* %m: 1[0-2]|0[1-9]|[1-9]
MatchesMonth(x) ==
    \/ Len(x) = 2 /\ AllDigits(x) /\ DigitsValue(x) \in 1..12
    \/ Len(x) = 1 /\ x[1] \in Digits \ {"0"}

\* %Y: \d\d\d\d, %y: \d\d with 69..99 in 1900 and 00..68 in 2000
MatchesYear(x, yfmt) == AllDigits(x) /\ Len(x) = (IF yfmt = "Y" THEN 4 ELSE 2)

YearOf(x, yfmt) ==
    IF yfmt = "Y" THEN DigitsValue(x)
    ELSE IF DigitsValue(x) < 69 THEN 2000 + DigitsValue(x) ELSE 1900 + DigitsValue(x)

\* datetime.strptime(s, fmt).strftime('%Y-%m-%d') for the formats of three
\* directives with one separator character between them: order is "dmy" or
\* "ymd", yfmt "Y" or "y".  ValueError when s does not match or is no date.
Reformat(s, sep, order, yfmt) ==
    LET parts == split(s, <<sep>>)
        d == IF order = "dmy" THEN parts[1] ELSE parts[3]
        m == parts[2]
        y == IF order = "dmy" THEN parts[3] ELSE parts[1]
        day == DigitsValue(SelectSeq(d, LAMBDA c : c \in Digits))
    IN  IF Len(parts) # 3 THEN Raise("ValueError")
        ELSE IF ~(MatchesDay(d) /\ MatchesMonth(m) /\ MatchesYear(y, yfmt)) THEN Raise("ValueError")
        ELSE DateString(YearOf(y, yfmt), PyInt(DigitsValue(m)), day)

\* the function ends without a return statement
FallsOffTheEnd == Return(PyNone)

format_date_string_d_m_y(s) ==
    LET date_list == IF contains(s, <<".">>) THEN split(s, <<".">>) ELSE split(s, <<"-">>)
    IN  IF Len(date_list) = 3
        THEN IF contains(s, <<".">>) /\ Len(date_list[3]) = 4 THEN Reformat(s, ".", "dmy", "Y")
             ELSE IF contains(s, <<".">>) /\ Len(date_list[3]) = 2 THEN Reformat(s, ".", "dmy", "y")
             ELSE IF contains(s, <<"-">>) /\ Len(date_list[3]) = 4 THEN Reformat(s, "-", "dmy", "Y")
             ELSE IF contains(s, <<"-">>) /\ Len(date_list[3]) = 2 THEN Reformat(s, "-", "dmy", "y")
             ELSE FallsOffTheEnd
        ELSE Return(PyStr(<<>>))

format_date_string_y_m_d(s) ==
    LET date_list == IF contains(s, <<".">>) THEN split(s, <<".">>) ELSE split(s, <<"-">>)
    IN  IF Len(date_list) = 3
        THEN IF contains(s, <<".">>) /\ Len(date_list[1]) = 4 THEN Reformat(s, ".", "ymd", "Y")
             ELSE IF contains(s, <<".">>) /\ Len(date_list[1]) = 2 THEN Reformat(s, ".", "ymd", "y")
             ELSE IF contains(s, <<"-">>) /\ Len(date_list[1]) = 4 THEN Return(PyStr(s))
             ELSE IF contains(s, <<"-">>) /\ Len(date_list[1]) = 2 THEN Reformat(s, "-", "ymd", "y")
             ELSE FallsOffTheEnd
        ELSE Return(PyStr(<<>>))

WordTokens ==
    { <<"5">>, <<"3", "1">>, <<"a", "b">>, <<"2", "0", "2", "1">>,
      <<"m", "a", "j", "a">>, <<"l", "u", "t", "e", "g", "o">>,
      <<"m", "a", "j">>, <<"l", "u", "t", "y">> }

NumberTokens ==
    { <<"5">>, <<"3", "1">>, <<"2">>, <<"1", "3">>, <<"2", "0", "2", "1">>,
      <<"2", "1">>, <<"3", "4", "5">>, <<"a", "b">> }

WordDateInputs == {join(<<" ">>, Tuple(x)) : x \in Strings(WordTokens, MaxDateParts)}

NumericDateInputs ==
    {join(<<sep>>, Tuple(x)) : sep \in {".", "-"}, x \in Strings(NumberTokens, MaxDateParts)}
    \cup { <<"0", "5", ".", "0", "3", ".", "2", "0", "2", "1">>,
           <<"5", ".", "2", "-", "2", ".", "2", "0", "2", "1">> }

WordDateFns == {"format_date_string_d_mword_y", "format_date_string_mword_y"}
NumericDateFns == {"format_date_string_d_m_y", "format_date_string_y_m_d"}

DateCalls ==
    {[fn |-> f, s |-> x] : f \in WordDateFns, x \in WordDateInputs}
    \cup {[fn |-> f, s |-> x] : f \in NumericDateFns, x \in NumericDateInputs}

----------------------------------------------------------------------------
Calls ==
    DateCalls \cup
    RefinerCalls \cup TranslateCalls \cup HashCalls \cup DecimalCalls
    \cup DecoratedCalls \cup PollerCalls \cup PageCalls

\* one of calls has been made and has not yet run
Called(calls) ==
    /\ call \in calls
    /\ pc = "called"
    /\ out = Pending
    /\ elapsed = 0
    /\ queries = 0
    /\ found = PyNone
    /\ page \in (IF call.fn = "buffer_until_page_fully_loaded" THEN PageMarkups ELSE {<<>>})
    /\ md5 = <<>>
    /\ changed = FALSE
    /\ reads = 0
    /\ sleeps = 0

Init == Called(Calls)

\* a call of a pure function: the result is a function of the arguments
Finish(result) ==
    /\ pc = "called"
    /\ pc' = "done"
    /\ out' = result
    /\ UNCHANGED <<call, elapsed, queries, found, page, md5, changed, reads, sleeps>>

RefinePriceVal == call.fn = "refine_price_val" /\ Finish(refine_price_val(call.s))
RefineEngCapacity == call.fn = "refine_eng_capacity" /\ Finish(refine_eng_capacity(call.s))
RefineMileage == call.fn = "refine_mileage" /\ Finish(refine_mileage(call.s))
RefineInteger == call.fn = "refine_integer" /\ Finish(refine_integer(call.s))

TranslateWord ==
    /\ call.fn = "translate_word_containing_substring"
    /\ Finish(translate_word_containing_substring(call.s, call.pairs))

PrepDecimalFromString ==
    /\ call.fn = "prep_decimal_from_string"
    /\ Finish(prep_decimal_from_string(call.s, call.precision_fp))

CalculateMd5 == call.fn = "calculate_md5" /\ Finish(calculate_md5(call.text))

CalculateHash ==
    /\ call.fn = "calculate_hash"
    /\ Finish(calculate_hash(call.text, call.salt, call.shift))

FormatDateStringDMwordY ==
    call.fn = "format_date_string_d_mword_y" /\ Finish(format_date_string_d_mword_y(call.s))

FormatDateStringMwordY ==
    call.fn = "format_date_string_mword_y" /\ Finish(format_date_string_mword_y(call.s))

FormatDateStringDMY ==
    call.fn = "format_date_string_d_m_y" /\ Finish(format_date_string_d_m_y(call.s))

FormatDateStringYMD ==
    call.fn = "format_date_string_y_m_d" /\ Finish(format_date_string_y_m_d(call.s))

\* a call through one of the decorators
CallDecorated ==
    /\ call.fn = "decorated"
    /\ Finish(Decorate(call.decorator, call.inner))

\* the three buffer functions on an empty selector
ReturnEmpty ==
    /\ pc = "called"
    /\ call.fn \in PollerFns
    /\ SkipsWait(call.fn, call.css_selector)
    /\ pc' = "done"
    /\ out' = Decorate(DecoratorOf(call.fn), Return(EmptyReturn(call.fn)))
    /\ UNCHANGED <<call, elapsed, queries, found, page, md5, changed, reads, sleeps>>

\* WebDriverWait(driver, twait).until(...) begins
StartWait ==
    /\ pc = "called"
    /\ call.fn \in PollerFns
    /\ ~SkipsWait(call.fn, call.css_selector)
    /\ pc' = "polling"
    /\ UNCHANGED <<call, out, elapsed, queries, found, page, md5, changed, reads, sleeps>>

\* one round of until(): the driver answers with a truthy value, with nothing
\* (NoSuchElementException, which until() ignores, or a falsy value), or with
\* a failure of another kind
Poll ==
    /\ pc = "polling"
    /\ queries' = queries + 1
    /\ \/ \E value \in Truthy(call.fn, call.css_selector) :
            /\ found' = value
            /\ out' = Decorate(DecoratorOf(call.fn), Return(Found(call.fn, value)))
            /\ pc' = "done"
            /\ UNCHANGED elapsed
       \/ /\ call.css_selector # <<>>
          /\ elapsed' = elapsed + 1
          /\ IF Expired(elapsed + 1, call.twait)
             THEN /\ out' = Decorate(DecoratorOf(call.fn), Raise("TimeoutException"))
                  /\ pc' = "done"
             ELSE UNCHANGED <<out, pc>>
          /\ UNCHANGED found
       \/ \E e \in DriverFailures(call.css_selector) :
            /\ out' = Decorate(DecoratorOf(call.fn), Raise(e))
            /\ pc' = "done"
            /\ UNCHANGED <<elapsed, found>>
    /\ UNCHANGED <<call, page, md5, changed, reads, sleeps>>

\* md5 = hashlib.md5(...driver.page_source...).hexdigest(); changed = False
ReadPageSource ==
    /\ pc = "called"
    /\ call.fn = "buffer_until_page_fully_loaded"
    /\ md5' = Fingerprint(page)
    /\ reads' = reads + 1
    /\ changed' = InitialChanged
    /\ pc' = "loop"
    /\ UNCHANGED <<call, out, elapsed, queries, found, page, sleeps>>

\* while changed: sleep, read the page again, compare the fingerprints
WhileChanged ==
    /\ pc = "loop"
    /\ IF changed
       THEN LET md5new == Fingerprint(page)
            IN  /\ sleeps' = sleeps + 1
                /\ reads' = reads + 1
                /\ changed' = (md5 # md5new)
                /\ md5' = md5new
                /\ UNCHANGED <<pc, out>>
       ELSE /\ pc' = "done"
            /\ out' = Return(PyNone)
            /\ UNCHANGED <<md5, changed, reads, sleeps>>
    /\ UNCHANGED <<call, elapsed, queries, found, page>>

\* the page loads on, whatever the call does
PageChanges ==
    /\ call.fn = "buffer_until_page_fully_loaded"
    /\ \E markup \in PageMarkups \ {page} : page' = markup
    /\ UNCHANGED <<call, pc, out, elapsed, queries, found, md5, changed, reads, sleeps>>

Next ==
    \/ RefinePriceVal
    \/ RefineEngCapacity
    \/ RefineMileage
    \/ RefineInteger
    \/ TranslateWord
    \/ PrepDecimalFromString
    \/ CalculateMd5
    \/ CalculateHash
    \/ FormatDateStringDMwordY
    \/ FormatDateStringMwordY
    \/ FormatDateStringDMY
    \/ FormatDateStringYMD
    \/ CallDecorated
    \/ ReturnEmpty
    \/ StartWait
    \/ Poll
    \/ ReadPageSource
    \/ WhileChanged
    \/ PageChanges

Spec == Init /\ [][Next]_vars

\* the calls of the five pollers alone
PollInit == Called(PollerCalls)

PollNext == ReturnEmpty \/ StartWait \/ Poll

\* the call runs on its caller's thread: a step that can be taken is taken
PollSpec == PollInit /\ [][PollNext]_vars /\ WF_vars(PollNext)

----------------------------------------------------------------------------
(* The claims *)

Done(fns) == pc = "done" /\ call.fn \in fns

C1_Sentinel(decorator) ==
    CASE decorator = "wait_for" -> PyNone
      [] decorator = "wait_for_list" -> PyList(<<>>)
      [] decorator = "get_func_or_eptstr" -> PyStr(<<>>)

\* C1: through each of the three decorators, a wrapped call that fails with
\* timeout, element-not-found or element-not-interactable gives the
\* decorator's sentinel (None, empty list, empty string) and raises nothing;
\* any other failure propagates as it is; a success value is returned unmodified.
C1_DecoratorContract ==
    Done({"decorated"}) =>
        LET r == call.inner
        IN  IF r.tag = "raise"
            THEN IF r.exc \in
                      {"TimeoutException", "NoSuchElementException", "ElementNotInteractableException"}
                 THEN Returns(out, C1_Sentinel(call.decorator))
                 ELSE out.tag = "raise" /\ out.exc = r.exc
            ELSE Returns(out, r.val)

C1_Witness ==
    /\ Done({"decorated"})
    /\ call.decorator = "wait_for_list"
    /\ call.inner.tag = "raise" /\ call.inner.exc = "ElementNotInteractableException"
    /\ Returns(out, PyList(<<>>))

Succeeded == pc = "done" /\ found.t # "None"
TimedOut == pc = "done" /\ found.t = "None" /\ elapsed > call.twait
Propagated == pc = "done" /\ out.tag = "raise"

C2_Sentinel(fn) ==
    CASE fn \in {"buffer", "buffer_interactable"} -> PyNone
      [] fn = "buffer_all" -> PyList(<<>>)
      [] fn \in {"wait_for_text_content", "wait_for_text_content_norm"} -> PyStr(<<>>)

C2_Trimmed(text) == strip(text)
C2_Normalised(text) == Tuple(lower(strip(join(<<" ">>, split_ws(text)))))

C2_Result(fn, value) ==
    CASE fn = "wait_for_text_content" -> PyStr(C2_Trimmed(value.v))
      [] fn = "wait_for_text_content_norm" -> PyStr(C2_Normalised(value.v))
      [] OTHER -> value

C3_EmptySelectorSkipsDriver ==
    call.fn \in {"buffer", "buffer_all", "buffer_interactable"} /\ call.css_selector = <<>> =>
        /\ queries = 0
        /\ elapsed = 0
        /\ pc \in {"called", "done"}
        /\ pc = "done" =>
              Returns(out, IF call.fn = "buffer_all" THEN PyList(<<>>) ELSE PyNone)

C3_Witness ==
    /\ Done({"buffer_all"})
    /\ call.css_selector = <<>>
    /\ call.twait > 0
    /\ Returns(out, PyList(<<>>))

C4_Known(dict, name) == \E e \in dict : e[1] = name

C4_Number(x) == Len(x) > 0 /\ \A i \in 1..Len(x) : x[i] \in Digits

C4_IsDate(y, m, d) ==
    /\ C4_Number(y) /\ C4_Number(m) /\ C4_Number(d)
    /\ ValidDate(DigitsValue(y), DigitsValue(m), DigitsValue(d))

\* s is day, month and year (or year, month and day) as numbers, separated by
\* periods or by hyphens, the year of two or four digits
C4_WellFormedNumeric(s, yearfirst) ==
    \E sep \in {".", "-"} :
        LET parts == split(s, <<sep>>)
            y == IF yearfirst THEN parts[1] ELSE parts[3]
            d == IF yearfirst THEN parts[3] ELSE parts[1]
        IN  /\ Len(parts) = 3
            /\ Len(y) \in {2, 4} /\ Len(parts[2]) \in {1, 2} /\ Len(d) \in {1, 2}
            /\ C4_Number(y)
            /\ C4_IsDate(IF Len(y) = 2 THEN <<"2", "0">> \o y ELSE y, parts[2], d)

C4_WellFormed(fn, s) ==
    LET tokens == split_ws(s)
    IN  CASE fn = "format_date_string_d_mword_y" ->
                /\ Len(tokens) >= 3
                /\ C4_Known(MonthsConj, tokens[2])
                /\ C4_Number(tokens[1]) /\ C4_Number(tokens[Len(tokens)])
                /\ ValidDate(DigitsValue(tokens[Len(tokens)]),
                             DictGet(MonthsConj, tokens[2]).v, DigitsValue(tokens[1]))
          [] fn = "format_date_string_mword_y" ->
                /\ Len(tokens) >= 2
                /\ C4_Known(MonthsFull, tokens[1])
                /\ C4_Number(tokens[Len(tokens)])
                /\ DigitsValue(tokens[Len(tokens)]) \in 1..9999
          [] fn = "format_date_string_d_m_y" -> C4_WellFormedNumeric(s, FALSE)
          [] fn = "format_date_string_y_m_d" -> C4_WellFormedNumeric(s, TRUE)

\* C4: each of the four date parsers returns the empty string for every input
\* that is malformed for its shape (wrong number of components, unknown month
\* name, non-numeric components, a year of neither 2 nor 4 digits, a day or
\* month out of range): it never raises and never returns a non-string.
C4_MalformedGivesEmpty ==
    Done(WordDateFns \cup NumericDateFns) /\ ~C4_WellFormed(call.fn, call.s) =>
        Returns(out, PyStr(<<>>))

\* C5: prep_decimal_from_string fails if and only if precision_fp > 20, and
\* otherwise returns a decimal of exactly precision_fp fractional digits
\* (precision_fp = 0 included), zero when s without its periods is not all
\* digits.
C5_DecimalContract ==
    Done({"prep_decimal_from_string"}) =>
        /\ out.tag = "raise" <=> call.precision_fp > 20
        /\ out.tag = "return" =>
              /\ out.val.t = "Decimal"
              /\ out.val.v.exp = -call.precision_fp
              /\ ~C4_Number(SelectSeq(call.s, LAMBDA c : c # ".")) => out.val.v.digits = <<"0">>

C6_NoDigit(s) == \A i \in 1..Len(s) : s[i] \notin Digits

\* C6: refine_integer, refine_mileage and refine_price_val never raise,
\* whatever the string (tokens of several periods and of periods alone
\* included), and return 0, 0 and "0" for a string without a digit.
C6_RefinersTotal ==
    Done({"refine_integer", "refine_mileage", "refine_price_val"}) =>
        /\ out.tag = "return"
        /\ out.val.t = (IF call.fn = "refine_price_val" THEN "str" ELSE "int")
        /\ C6_NoDigit(call.s) =>
              Returns(out, IF call.fn = "refine_price_val" THEN PyStr(<<"0">>) ELSE PyInt(0))

C6_Witness ==
    /\ Done({"refine_integer"})
    /\ call.s = <<"1", ".", "2", ".", "3">>
    /\ Returns(out, PyInt(0))

\* the text before the last occurrence of "cm", all of it when there is none
C7_BeforeLastCm(text) ==
    LET at == {i \in 1..(Len(text) - 1) : text[i] = "c" /\ text[i + 1] = "m"}
    IN  IF at = {} THEN text
        ELSE SubSeq(text, 1, (CHOOSE i \in at : \A j \in at : j <= i) - 1)

C7_Expected(text) ==
    LET kept == SelectSeq(split_ws(C7_BeforeLastCm(text)), LAMBDA x : C4_Number(x))
    IN  IF Len(kept) = 0 THEN 0 ELSE DigitsValue(join(<<>>, kept))

\* C7: refine_eng_capacity(text) is the integer got by removing everything
\* from the last "cm" on (nothing when "cm" does not occur), keeping the
\* whitespace-separated all-digit tokens, concatenating them and parsing the
\* result; 0 when no token survives.
C7_EngCapacity ==
    Done({"refine_eng_capacity"}) => Returns(out, PyInt(C7_Expected(call.s)))

C8_Occurs(s, sub) == \E i \in 1..(Len(s) - Len(sub) + 1) : SubSeq(s, i, i + Len(sub) - 1) = sub

\* C8: translate_word_containing_substring(s, pairs) returns the replacement
\* of the lowest-index pair whose substring occurs in s (first match in pair
\* order, not the longest), and "" when no pair's substring occurs in s or
\* pairs is empty.
C8_FirstMatchWins ==
    Done({"translate_word_containing_substring"}) =>
        LET hits == {i \in 1..Len(call.pairs) : C8_Occurs(call.s, call.pairs[i][1])}
        IN  IF hits = {} THEN Returns(out, PyStr(<<>>))
            ELSE \E i \in hits :
                    /\ \A j \in hits : i <= j
                    /\ Returns(out, PyStr(call.pairs[i][2]))

C8_Witness ==
    /\ Done({"translate_word_containing_substring"})
    /\ Len(call.pairs) = 2
    /\ C8_Occurs(call.s, call.pairs[1][1]) /\ C8_Occurs(call.s, call.pairs[2][1])
    /\ Len(call.pairs[2][1]) > Len(call.pairs[1][1])
    /\ call.pairs[1][2] # call.pairs[2][2]
    /\ Returns(out, PyStr(call.pairs[1][2]))

C9_Digest(text, salt) == md5_digest(encode(text \o salt))

\* C9: calculate_hash depends on shift only modulo 256: the result for shift
\* and for shift + 256 are the same, negative shifts included; every output
\* byte is (digest byte + shift) mod 256 and lies in 0..255; and
\* calculate_hash(text, "", 0) is calculate_md5(text).
C9_ShiftModulo256 ==
    Done({"calculate_hash"}) =>
        LET digest == C9_Digest(call.text, call.salt)
            bytes == shifted_digest(call.text, call.salt, call.shift)
        IN  /\ Returns(out, calculate_hash(call.text, call.salt, call.shift + 256).val)
            /\ Len(bytes) = Len(digest)
            /\ \A i \in 1..Len(digest) :
                  /\ bytes[i] \in 0..255
                  /\ \E k \in -2..2 : bytes[i] = digest[i] + call.shift + 256 * k
            /\ Returns(out, PyStr(hex(bytes)))
            /\ call.salt = <<>> /\ call.shift = 0 =>
                  Returns(out, calculate_md5(call.text).val)

C9_Witness ==
    /\ Done({"calculate_hash"})
    /\ call.shift < 0 /\ call.shift > -256
    /\ call.salt # <<>>
    /\ \E i \in 1..Md5DigestSize : C9_Digest(call.text, call.salt)[i] + call.shift < 0
    /\ out.tag = "return"

\* C10: in buffer_until_page_fully_loaded the loop body never executes: a
\* call reads the page markup exactly once, never sleeps, never recomputes the
\* fingerprint, and returns, however the page changes meanwhile.
C10_LoopBodyNeverRuns ==
    call.fn = "buffer_until_page_fully_loaded" =>
        /\ sleeps = 0
        /\ reads <= 1
        /\ pc \in {"loop", "done"} => reads = 1 /\ ~changed
        /\ pc = "done" => Returns(out, PyNone)

\* the call has returned and the page is no longer the one it fingerprinted
C10_Witness ==
    /\ Done({"buffer_until_page_fully_loaded"})
    /\ reads = 1
    /\ md5 # Fingerprint(page)

====
